---- MODULE Spec2Model ----
(***************************************************************************)
(* Region editor / transport controller of the AudioPlayer component       *)
(* (src/src/components/AudioPlayer/AudioPlayer.tsx) together with the      *)
(* part of the waveform engine (WaveSurfer and its regions plugin) that    *)
(* the component drives.                                                   *)
(*                                                                         *)
(* Time is counted in ticks of 0.25 s, the width of the collision guard,   *)
(* so 20 s = 80 ticks, 40 s = 160 ticks and a skip of 5 s = 20 ticks.      *)
(***************************************************************************)
EXTENDS Integers, Sequences, FiniteSets, TLC

VARIABLES
    lifecycle,          \* "constructed" | "mounted" | "unmounted" (React instance)
    isPlaying,          \* state.isPlaying
    cutStart,           \* state.cutStart
    cutEnd,             \* state.cutEnd
    originalCutStart,   \* state.originalCutStart
    originalCutEnd,     \* state.originalCutEnd
    waveSurfer,         \* state.waveSurfer is set (the engine handle is published)
    wasRegionChanged,   \* state.wasRegionChanged
    engine,             \* "none" | "loading" | "ready" | "destroyed"
    duration,           \* length of the loaded track (engine.getDuration())
    regions,            \* the engine's list of regions, each [start, end]
    dragging,           \* 0, or the index of the region a drag gesture holds
    playing,            \* the engine's transport is running
    currentTime,        \* the engine's playhead
    playUntil,          \* where the running playback stops on its own
    lastOp,             \* the handler that ran last: <<name, arguments...>>
    calls,              \* the calls that handler made, in order: <<name, arguments...>>
    zeroAnchor          \* the last update-end since ready/cancel resolved anchor 0

session == <<isPlaying, cutStart, cutEnd, originalCutStart, originalCutEnd,
             waveSurfer, wasRegionChanged>>
transport == <<playing, currentTime, playUntil>>
engineState == <<engine, duration, regions, dragging, playing, currentTime, playUntil>>
vars == <<lifecycle, isPlaying, cutStart, cutEnd, originalCutStart, originalCutEnd,
          waveSurfer, wasRegionChanged, engine, duration, regions, dragging,
          playing, currentTime, playUntil, lastOp, calls, zeroAnchor>>

----------------------------------------------------------------------------
(* Program constants, in ticks of 0.25 s.                                  *)

\* NaN, the value of the four bounds before the track has loaded.
NaN == -1
\* `duration > 40`: tracks longer than 40 s get the margins.
LongTrack == 160
\* `cutStart = 20; cutEnd = duration - 20`.
Margin == 80
\* `Math.abs(start - end) > 0.25`.
CollisionWidth == 1
\* `skipLength: 5`.
skipLength == 20
\* `jump(true)`: `duration - current - 5`.
JumpBack == 20

(* Bounds of the model.                                                    *)

\* Tracks of 20 s, 40 s, 60 s, ... : 40 s + k * 20 s for k in -1..MaxTrack.
MaxTrack == 1

Durations == {LongTrack + k * Margin : k \in -1..MaxTrack}

\* Where a drag can put an edge: the track's ends, the default margins, a
\* quarter second past the first margin and 5 s past it.
Positions(d) == {p \in {0, Margin, Margin + CollisionWidth, Margin + skipLength,
                        d - Margin, d} :
                    0 <= p /\ p <= d}

Abs(x) == IF x < 0 THEN -x ELSE x
Min(a, b) == IF a < b THEN a ELSE b
Max(a, b) == IF a < b THEN b ELSE a
Finite(x) == x # NaN


----------------------------------------------------------------------------
(* The engine, as the component uses it.  A drag gesture holds one region;  *)
(* every move of it updates that region and emits region-updated, and the  *)
(* release emits region-update-end with the bounds the region then has.    *)
(* A region that is removed (clearRegions, destroy) drops its listeners,   *)
(* which ends the gesture without a region-update-end.                     *)

Region(s, e) == [start |-> s, end |-> e]

\* waveSurfer.addRegion({start, end, color})
WsAddRegion(regs, s, e) == Append(regs, Region(s, e))

\* waveSurfer.clearRegions()
WsClearRegions(regs) == << >>

\* waveSurfer.skip(offset): the playhead moves by offset, kept inside the track
WsSkip(t, offset, d) == Max(0, Min(d, t + offset))

\* waveSurfer.play() resumes at the playhead, from the start when it is at the end
WsResumeAt(t, d) == IF t >= d THEN 0 ELSE t

----------------------------------------------------------------------------
(* The component.                                                          *)

\* The default region of a track of duration d (onWaveSurferReady).
DefaultCutStartFrom40(d) == IF d >= LongTrack THEN Margin ELSE 0
DefaultCutStart(d) == IF d > LongTrack THEN Margin ELSE 0
DefaultCutEnd(d) == IF d > LongTrack THEN d - Margin ELSE d

\* recreateRegion(waveSurfer, startTime, endTime): clearRegions, then addRegion
recreateRegionNoClear(regs, s, e) == WsAddRegion(regs, s, e)
recreateRegionSwapped(regs, s, e) == WsAddRegion(WsClearRegions(regs), e, s)
recreateRegion(regs, s, e) == WsAddRegion(WsClearRegions(regs), s, e)
recreateRegionCalls(s, e) == << <<"clearRegions">>, <<"addRegion", s, e>> >>

\* the collision test of onCropRegionUpdated
CollidesNever(start, end) == FALSE
CollidesStrict(start, end) == Abs(start - end) < CollisionWidth
Collides(start, end) == ~(Abs(start - end) > CollisionWidth)

\* playFrom of onCropRegionUpdateEnd
PlayFromEndWins(start, end, cs, ce) ==
    LET afterStart == IF start # cs THEN start ELSE 0
    IN  IF end # ce THEN end ELSE afterStart
PlayFrom(start, end, cs, ce) ==
    LET afterEnd == IF end # ce THEN end ELSE 0
    IN  IF start # cs THEN start ELSE afterEnd

\* `wasRegionChanged: playFrom !== 0` of onCropRegionUpdateEnd
RegionChangedNever(playFrom) == FALSE
RegionChangedInverted(playFrom) == playFrom = 0
RegionChanged(playFrom) == playFrom # 0

\* render: the click handlers the rendered buttons carry.  The cut and the
\* cancel button get theirs only while wasRegionChanged is true.
RenderedAlways ==
    {"handleClickJump", "handleClickSkip", "handleClickTogglePlay",
     "handleClickCut", "handleClickCancel"}
Rendered ==
    {"handleClickJump", "handleClickSkip", "handleClickTogglePlay"}
        \cup (IF wasRegionChanged THEN {"handleClickCut", "handleClickCancel"} ELSE {})

Init ==
    /\ lifecycle = "constructed"
    /\ isPlaying = FALSE
    /\ originalCutStart = NaN
    /\ originalCutEnd = NaN
    /\ cutStart = NaN
    /\ cutEnd = NaN
    /\ wasRegionChanged = FALSE
    /\ waveSurfer = FALSE
    /\ engine = "none"
    /\ duration = 0
    /\ regions = << >>
    /\ dragging = 0
    /\ playing = FALSE
    /\ currentTime = 0
    /\ playUntil = 0
    /\ lastOp = <<"constructor">>
    /\ calls = << >>
    /\ zeroAnchor = FALSE

\* componentDidMount: create the engine, subscribe to ready, load the file.
componentDidMount ==
    /\ lifecycle = "constructed"
    /\ \E d \in Durations : duration' = d
    /\ lifecycle' = "mounted"
    /\ engine' = "loading"
    /\ lastOp' = <<"componentDidMount">>
    /\ calls' = << <<"create">>, <<"on", "ready">>, <<"loadBlob">> >>
    /\ UNCHANGED <<session, regions, dragging, transport, zeroAnchor>>

\* componentWillUnmount: destroy the engine if the handle is in the state.
componentWillUnmount ==
    /\ lifecycle = "mounted"
    /\ lifecycle' = "unmounted"
    /\ lastOp' = <<"componentWillUnmount">>
    /\ IF ~waveSurfer
       THEN /\ calls' = << >>
            /\ UNCHANGED engineState
       ELSE /\ calls' = << <<"destroy">> >>
            /\ engine' = "destroyed"
            /\ regions' = << >>
            /\ dragging' = 0
            /\ playing' = FALSE
            /\ UNCHANGED <<duration, currentTime, playUntil>>
    /\ UNCHANGED <<session, zeroAnchor>>

\* The engine emits ready once the file is decoded: onWaveSurferReady.
\* A setState on an instance that is no longer mounted is dropped by React.
onWaveSurferReady ==
    /\ engine = "loading"
    /\ engine' = "ready"
    /\ LET cs == DefaultCutStart(duration)
           ce == DefaultCutEnd(duration)
       IN  /\ regions' = WsAddRegion(regions, cs, ce)
           /\ calls' = << <<"on", "region-created">>, <<"on", "region-updated">>,
                         <<"on", "region-update-end">>, <<"addRegion", cs, ce>> >>
           /\ IF lifecycle = "mounted"
              THEN /\ waveSurfer' = TRUE
                   /\ cutStart' = cs
                   /\ cutEnd' = ce
                   /\ originalCutStart' = cs
                   /\ originalCutEnd' = ce
              ELSE UNCHANGED <<waveSurfer, cutStart, cutEnd,
                               originalCutStart, originalCutEnd>>
    /\ lastOp' = <<"onWaveSurferReady">>
    /\ zeroAnchor' = FALSE
    /\ UNCHANGED <<lifecycle, isPlaying, wasRegionChanged, duration, dragging,
                   transport>>

\* The engine emits region-updated while a drag moves region i to [start, end]:
\* onCropRegionUpdated.  Removing the dragged region ends the gesture.
onCropRegionUpdated ==
    /\ lifecycle = "mounted"
    /\ engine = "ready"
    /\ \E i \in 1..Len(regions), start \in Positions(duration), end \in Positions(duration) :
          /\ dragging \in {0, i}
          /\ start <= end
          /\ lastOp' = <<"onCropRegionUpdated", start, end>>
          /\ LET moved == [regions EXCEPT ![i] = Region(start, end)]
             IN  IF ~waveSurfer \/ ~Collides(start, end)
                 THEN /\ regions' = moved
                      /\ dragging' = i
                      /\ calls' = << >>
                      /\ UNCHANGED transport
                 ELSE /\ regions' = recreateRegion(moved, cutStart, cutEnd)
                      /\ dragging' = 0
                      /\ IF isPlaying
                         THEN /\ calls' = recreateRegionCalls(cutStart, cutEnd)
                                             \o << <<"region.play">> >>
                              /\ playing' = TRUE
                              /\ currentTime' = cutStart
                              /\ playUntil' = cutEnd
                         ELSE /\ calls' = recreateRegionCalls(cutStart, cutEnd)
                              /\ UNCHANGED transport
    /\ UNCHANGED <<lifecycle, session, engine, duration, zeroAnchor>>

\* The engine emits region-update-end when the drag is released, with the
\* bounds the dragged region then has: onCropRegionUpdateEnd.
onCropRegionUpdateEndMovesOriginal ==
    /\ lifecycle = "mounted"
    /\ engine = "ready"
    /\ \E i \in 1..Len(regions) :
          /\ dragging \in {0, i}
          /\ LET start == regions[i].start
                 end == regions[i].end
                 playFrom == PlayFrom(start, end, cutStart, cutEnd)
             IN  /\ lastOp' = <<"onCropRegionUpdateEnd", start, end>>
                 /\ dragging' = 0
                 /\ IF ~waveSurfer
                    THEN /\ calls' = << >>
                         /\ UNCHANGED <<session, transport, zeroAnchor>>
                    ELSE /\ cutEnd' = IF end # cutEnd THEN end ELSE cutEnd
                         /\ cutStart' = IF start # cutStart THEN start ELSE cutStart
                         /\ calls' = << <<"play", playFrom>> >>
                         /\ playing' = TRUE
                         /\ currentTime' = playFrom
                         /\ playUntil' = duration
                         /\ isPlaying' = TRUE
                         /\ wasRegionChanged' = RegionChanged(playFrom)
                         /\ zeroAnchor' = (playFrom = 0)
                         /\ originalCutEnd' = IF end # cutEnd THEN end
                                                              ELSE originalCutEnd
                         /\ UNCHANGED <<originalCutStart, waveSurfer>>
    /\ UNCHANGED <<lifecycle, engine, duration, regions>>

onCropRegionUpdateEnd ==
    /\ lifecycle = "mounted"
    /\ engine = "ready"
    /\ \E i \in 1..Len(regions) :
          /\ dragging \in {0, i}
          /\ LET start == regions[i].start
                 end == regions[i].end
                 playFrom == PlayFrom(start, end, cutStart, cutEnd)
             IN  /\ lastOp' = <<"onCropRegionUpdateEnd", start, end>>
                 /\ dragging' = 0
                 /\ IF ~waveSurfer
                    THEN /\ calls' = << >>
                         /\ UNCHANGED <<session, transport, zeroAnchor>>
                    ELSE /\ cutEnd' = IF end # cutEnd THEN end ELSE cutEnd
                         /\ cutStart' = IF start # cutStart THEN start ELSE cutStart
                         /\ calls' = << <<"play", playFrom>> >>
                         /\ playing' = TRUE
                         /\ currentTime' = playFrom
                         /\ playUntil' = duration
                         /\ isPlaying' = TRUE
                         /\ wasRegionChanged' = RegionChanged(playFrom)
                         /\ zeroAnchor' = (playFrom = 0)
                         /\ UNCHANGED <<originalCutStart, originalCutEnd, waveSurfer>>
    /\ UNCHANGED <<lifecycle, engine, duration, regions>>

\* handleClickTogglePlay (lastOp also tells isPlaying before the call and
\* whether the handler before it was handleClickTogglePlay too)
handleClickTogglePlayUnguarded ==
    /\ lifecycle = "mounted"
    /\ "handleClickTogglePlay" \in Rendered
    /\ lastOp' = <<"handleClickTogglePlay", isPlaying,
                   lastOp[1] = "handleClickTogglePlay">>
    /\ calls' = IF isPlaying THEN << <<"pause">> >> ELSE << <<"play">> >>
    /\ playing' = ~isPlaying
    /\ currentTime' = IF isPlaying THEN currentTime ELSE WsResumeAt(currentTime, duration)
    /\ playUntil' = IF isPlaying THEN playUntil ELSE duration
    /\ isPlaying' = ~isPlaying
    /\ UNCHANGED <<lifecycle, cutStart, cutEnd, originalCutStart, originalCutEnd,
                   waveSurfer, wasRegionChanged, engine, duration, regions,
                   dragging, zeroAnchor>>

handleClickTogglePlayNoFlip ==
    /\ lifecycle = "mounted"
    /\ "handleClickTogglePlay" \in Rendered
    /\ lastOp' = <<"handleClickTogglePlay", isPlaying,
                   lastOp[1] = "handleClickTogglePlay">>
    /\ IF ~waveSurfer
       THEN /\ calls' = << >>
            /\ UNCHANGED <<isPlaying, transport>>
       ELSE /\ IF isPlaying
               THEN /\ calls' = << <<"pause">> >>
                    /\ playing' = FALSE
                    /\ UNCHANGED <<currentTime, playUntil>>
               ELSE /\ calls' = << <<"play">> >>
                    /\ playing' = TRUE
                    /\ currentTime' = WsResumeAt(currentTime, duration)
                    /\ playUntil' = duration
            /\ UNCHANGED isPlaying
    /\ UNCHANGED <<lifecycle, cutStart, cutEnd, originalCutStart, originalCutEnd,
                   waveSurfer, wasRegionChanged, engine, duration, regions,
                   dragging, zeroAnchor>>

handleClickTogglePlay ==
    /\ lifecycle = "mounted"
    /\ "handleClickTogglePlay" \in Rendered
    /\ lastOp' = <<"handleClickTogglePlay", isPlaying,
                   lastOp[1] = "handleClickTogglePlay">>
    /\ IF ~waveSurfer
       THEN /\ calls' = << >>
            /\ UNCHANGED <<isPlaying, transport>>
       ELSE /\ IF isPlaying
               THEN /\ calls' = << <<"pause">> >>
                    /\ playing' = FALSE
                    /\ UNCHANGED <<currentTime, playUntil>>
               ELSE /\ calls' = << <<"play">> >>
                    /\ playing' = TRUE
                    /\ currentTime' = WsResumeAt(currentTime, duration)
                    /\ playUntil' = duration
            /\ isPlaying' = ~isPlaying
    /\ UNCHANGED <<lifecycle, cutStart, cutEnd, originalCutStart, originalCutEnd,
                   waveSurfer, wasRegionChanged, engine, duration, regions,
                   dragging, zeroAnchor>>

\* handleClickSkip(skipForwards)
handleClickSkip ==
    /\ lifecycle = "mounted"
    /\ "handleClickSkip" \in Rendered
    /\ \E skipForwards \in BOOLEAN :
          /\ lastOp' = <<"handleClickSkip", skipForwards>>
          /\ IF ~waveSurfer
             THEN /\ calls' = << >>
                  /\ UNCHANGED transport
             ELSE /\ calls' = IF skipForwards THEN << <<"skipForward">> >>
                                             ELSE << <<"skipBackward">> >>
                  /\ currentTime' = WsSkip(currentTime,
                                           IF skipForwards THEN skipLength ELSE -skipLength,
                                           duration)
                  /\ playUntil' = duration
                  /\ UNCHANGED playing
    /\ UNCHANGED <<lifecycle, session, engine, duration, regions, dragging, zeroAnchor>>

\* handleClickJump(jumpToEnd)
handleClickJumpNoPause ==
    /\ lifecycle = "mounted"
    /\ "handleClickJump" \in Rendered
    /\ \E jumpToEnd \in BOOLEAN :
          /\ lastOp' = <<"handleClickJump", jumpToEnd>>
          /\ IF ~waveSurfer
             THEN /\ calls' = << >>
                  /\ UNCHANGED <<isPlaying, transport>>
             ELSE IF jumpToEnd
             THEN LET offset == duration - currentTime - JumpBack
                      skipped == WsSkip(currentTime, offset, duration)
                  IN  /\ calls' = << <<"skip", offset>>, <<"skipForward">> >>
                      /\ currentTime' = WsSkip(skipped, skipLength, duration)
                      /\ UNCHANGED playing
                      /\ playUntil' = duration
                      /\ isPlaying' = FALSE
             ELSE /\ IF isPlaying
                     THEN /\ calls' = << <<"stop">>, <<"play">> >>
                          /\ playing' = TRUE
                     ELSE /\ calls' = << <<"stop">> >>
                          /\ playing' = FALSE
                  /\ currentTime' = 0
                  /\ playUntil' = duration
                  /\ UNCHANGED isPlaying
    /\ UNCHANGED <<lifecycle, cutStart, cutEnd, originalCutStart, originalCutEnd,
                   waveSurfer, wasRegionChanged, engine, duration, regions,
                   dragging, zeroAnchor>>

handleClickJumpAlwaysPlays ==
    /\ lifecycle = "mounted"
    /\ "handleClickJump" \in Rendered
    /\ \E jumpToEnd \in BOOLEAN :
          /\ lastOp' = <<"handleClickJump", jumpToEnd>>
          /\ IF ~waveSurfer
             THEN /\ calls' = << >>
                  /\ UNCHANGED <<isPlaying, transport>>
             ELSE IF jumpToEnd
             THEN LET offset == duration - currentTime - JumpBack
                      skipped == WsSkip(currentTime, offset, duration)
                  IN  /\ calls' = << <<"skip", offset>>, <<"pause">>, <<"skipForward">> >>
                      /\ currentTime' = WsSkip(skipped, skipLength, duration)
                      /\ playing' = FALSE
                      /\ playUntil' = duration
                      /\ isPlaying' = FALSE
             ELSE /\ IF TRUE
                     THEN /\ calls' = << <<"stop">>, <<"play">> >>
                          /\ playing' = TRUE
                     ELSE /\ calls' = << <<"stop">> >>
                          /\ playing' = FALSE
                  /\ currentTime' = 0
                  /\ playUntil' = duration
                  /\ UNCHANGED isPlaying
    /\ UNCHANGED <<lifecycle, cutStart, cutEnd, originalCutStart, originalCutEnd,
                   waveSurfer, wasRegionChanged, engine, duration, regions,
                   dragging, zeroAnchor>>

handleClickJump ==
    /\ lifecycle = "mounted"
    /\ "handleClickJump" \in Rendered
    /\ \E jumpToEnd \in BOOLEAN :
          /\ lastOp' = <<"handleClickJump", jumpToEnd>>
          /\ IF ~waveSurfer
             THEN /\ calls' = << >>
                  /\ UNCHANGED <<isPlaying, transport>>
             ELSE IF jumpToEnd
             THEN LET offset == duration - currentTime - JumpBack
                      skipped == WsSkip(currentTime, offset, duration)
                  IN  /\ calls' = << <<"skip", offset>>, <<"pause">>, <<"skipForward">> >>
                      /\ currentTime' = WsSkip(skipped, skipLength, duration)
                      /\ playing' = FALSE
                      /\ playUntil' = duration
                      /\ isPlaying' = FALSE
             ELSE /\ IF isPlaying
                     THEN /\ calls' = << <<"stop">>, <<"play">> >>
                          /\ playing' = TRUE
                     ELSE /\ calls' = << <<"stop">> >>
                          /\ playing' = FALSE
                  /\ currentTime' = 0
                  /\ playUntil' = duration
                  /\ UNCHANGED isPlaying
    /\ UNCHANGED <<lifecycle, cutStart, cutEnd, originalCutStart, originalCutEnd,
                   waveSurfer, wasRegionChanged, engine, duration, regions,
                   dragging, zeroAnchor>>

\* handleClickCut (lastOp also tells whether the call came from a click on
\* the rendered button or was made directly)
handleClickCutStops ==
    /\ lifecycle = "mounted"
    /\ \E ui \in BOOLEAN :
          /\ ui => "handleClickCut" \in Rendered
          /\ lastOp' = <<"handleClickCut", ui>>
    /\ calls' = << <<"alert", "Not yet implemented :(">>, <<"pause">> >>
    /\ playing' = FALSE
    /\ isPlaying' = FALSE
    /\ UNCHANGED <<lifecycle, cutStart, cutEnd, originalCutStart, originalCutEnd,
                   waveSurfer, wasRegionChanged, engine, duration, regions,
                   dragging, currentTime, playUntil, zeroAnchor>>

handleClickCut ==
    /\ lifecycle = "mounted"
    /\ \E ui \in BOOLEAN :
          /\ ui => "handleClickCut" \in Rendered
          /\ lastOp' = <<"handleClickCut", ui>>
    /\ calls' = << <<"alert", "Not yet implemented :(">> >>
    /\ UNCHANGED <<lifecycle, session, engineState, zeroAnchor>>

\* handleClickCancel (lastOp also tells whether the handler before it was
\* handleClickCancel too, and whether the call came from a click on the
\* rendered button or was made directly)
handleClickCancelNoStop ==
    /\ lifecycle = "mounted"
    /\ \E ui \in BOOLEAN :
          /\ ui => "handleClickCancel" \in Rendered
          /\ lastOp' = <<"handleClickCancel", lastOp[1] = "handleClickCancel", ui>>
    /\ IF ~waveSurfer
       THEN /\ calls' = << >>
            /\ UNCHANGED <<session, engineState, zeroAnchor>>
       ELSE /\ regions' = recreateRegion(regions, originalCutStart, originalCutEnd)
            /\ dragging' = 0
            /\ calls' = recreateRegionCalls(originalCutStart, originalCutEnd)
            /\ isPlaying' = FALSE
            /\ cutStart' = originalCutStart
            /\ cutEnd' = originalCutEnd
            /\ wasRegionChanged' = FALSE
            /\ zeroAnchor' = FALSE
            /\ UNCHANGED <<originalCutStart, originalCutEnd, waveSurfer, engine,
                           duration, transport>>
    /\ UNCHANGED lifecycle

handleClickCancel ==
    /\ lifecycle = "mounted"
    /\ \E ui \in BOOLEAN :
          /\ ui => "handleClickCancel" \in Rendered
          /\ lastOp' = <<"handleClickCancel", lastOp[1] = "handleClickCancel", ui>>
    /\ IF ~waveSurfer
       THEN /\ calls' = << >>
            /\ UNCHANGED <<session, engineState, zeroAnchor>>
       ELSE /\ regions' = recreateRegion(regions, originalCutStart, originalCutEnd)
            /\ dragging' = 0
            /\ calls' = recreateRegionCalls(originalCutStart, originalCutEnd)
                           \o << <<"stop">> >>
            /\ playing' = FALSE
            /\ currentTime' = 0
            /\ playUntil' = duration
            /\ isPlaying' = FALSE
            /\ cutStart' = originalCutStart
            /\ cutEnd' = originalCutEnd
            /\ wasRegionChanged' = FALSE
            /\ zeroAnchor' = FALSE
            /\ UNCHANGED <<originalCutStart, originalCutEnd, waveSurfer, engine, duration>>
    /\ UNCHANGED lifecycle

\* The engine plays on by itself: the playhead moves towards the point where
\* the playback stops (the end of the track, or of the region being played),
\* and the transport halts there.
EnginePlayback ==
    /\ engine = "ready"
    /\ playing
    /\ \E t \in Positions(duration) \cup {playUntil} :
          /\ \/ currentTime < t /\ t <= playUntil
             \/ currentTime >= playUntil /\ t = playUntil
          /\ currentTime' = Max(currentTime, t)
          /\ playing' = (t < playUntil)
    /\ lastOp' = <<"playback">>
    /\ calls' = << >>
    /\ UNCHANGED <<lifecycle, session, engine, duration, regions, dragging,
                   playUntil, zeroAnchor>>

Next ==
    \/ componentDidMount
    \/ componentWillUnmount
    \/ onWaveSurferReady
    \/ onCropRegionUpdated
    \/ onCropRegionUpdateEnd
    \/ handleClickTogglePlay
    \/ handleClickSkip
    \/ handleClickJump
    \/ handleClickCut
    \/ handleClickCancel
    \/ EnginePlayback

Spec == Init /\ [][Next]_vars

TypeOK ==
    /\ lifecycle \in {"constructed", "mounted", "unmounted"}
    /\ engine \in {"none", "loading", "ready", "destroyed"}
    /\ isPlaying \in BOOLEAN /\ playing \in BOOLEAN /\ waveSurfer \in BOOLEAN
    /\ dragging \in 0..Len(regions)

----------------------------------------------------------------------------
(* What the claims are stated with.                                        *)

BoundsDiffer == cutStart # originalCutStart \/ cutEnd # originalCutEnd
LastOpIs(name) == lastOp[1] = name
Guarded == {"handleClickTogglePlay", "handleClickSkip", "handleClickJump",
            "handleClickCancel"}

C2_FlagIffBoundsDiffer ==
    (waveSurfer /\ ~zeroAnchor) => (wasRegionChanged <=> BoundsDiffer)

\* C2 amended: after ready, bounds that differ from the original bounds imply
\* wasRegionChanged, unless the last update-end resolved the anchor 0; and
\* wasRegionChanged is never true after such an update-end.
C2_BoundsDifferImpliesFlag ==
    waveSurfer =>
        /\ (~zeroAnchor /\ BoundsDiffer) => wasRegionChanged
        /\ zeroAnchor => ~wasRegionChanged

\* C2 witness: an update-end has committed bounds other than the original
\* ones with a non-zero anchor.
C2_Witness ==
    /\ waveSurfer /\ LastOpIs("onCropRegionUpdateEnd")
    /\ ~zeroAnchor /\ BoundsDiffer /\ wasRegionChanged

\* C3: the engine never holds more than one region, and holds exactly one
\* while it is ready.
C3_AtMostOneRegion ==
    /\ Len(regions) <= 1
    /\ engine = "ready" => Len(regions) = 1

\* C3 witness: the collision guard has recreated the region.
C3_Witness ==
    /\ waveSurfer /\ LastOpIs("onCropRegionUpdated")
    /\ Len(calls) >= 2 /\ calls[1] = <<"clearRegions">>
    /\ Len(regions) = 1

\* C4: a region-updated whose bounds are at most 0.25 s apart leaves cutStart
\* and cutEnd as they were, recreates the engine's region (clearRegions, then
\* addRegion) at exactly these bounds, and plays the new region iff isPlaying.
C4_CollisionGuard ==
    [][(waveSurfer /\ lastOp'[1] = "onCropRegionUpdated"
            /\ Abs(lastOp'[2] - lastOp'[3]) <= CollisionWidth) =>
          /\ cutStart' = cutStart /\ cutEnd' = cutEnd
          /\ regions' = <<Region(cutStart, cutEnd)>>
          /\ Len(calls') >= 2
          /\ calls'[1] = <<"clearRegions">>
          /\ calls'[2] = <<"addRegion", cutStart, cutEnd>>
          /\ IF isPlaying
             THEN /\ calls' = <<calls'[1], calls'[2], <<"region.play">> >>
                  /\ playing' /\ currentTime' = cutStart
             ELSE /\ Len(calls') = 2
                  /\ UNCHANGED transport
          /\ UNCHANGED <<isPlaying, wasRegionChanged, originalCutStart, originalCutEnd>>
      ]_vars

\* C4 witness: the guard has fired on bounds a quarter second apart while the
\* session was playing, and playback was resumed from the recreated region.
C4_Witness ==
    /\ waveSurfer /\ LastOpIs("onCropRegionUpdated")
    /\ lastOp[3] - lastOp[2] = CollisionWidth
    /\ isPlaying /\ playing /\ currentTime = cutStart
    /\ regions = <<Region(cutStart, cutEnd)>>

\* C5: the step in which ready is handled on a mounted component adds the
\* region [20 s, d - 20 s] if d > 40 s and [0, d] otherwise, stores it as
\* cutStart/cutEnd and as originalCutStart/originalCutEnd, and publishes the
\* engine handle in that same step; the handle is published in no other step.
C5_DefaultRegionAtReady ==
    [][/\ (lifecycle = "mounted" /\ lastOp'[1] = "onWaveSurferReady") =>
            LET s == IF duration > LongTrack THEN Margin ELSE 0
                e == IF duration > LongTrack THEN duration - Margin ELSE duration
            IN  /\ ~waveSurfer /\ waveSurfer'
                /\ regions' = <<Region(s, e)>>
                /\ cutStart' = s /\ cutEnd' = e
                /\ originalCutStart' = s /\ originalCutEnd' = e
       /\ (~waveSurfer /\ waveSurfer') => lastOp'[1] = "onWaveSurferReady"
      ]_vars

\* C5 witness: ready has been handled for a track of exactly 40 s, which
\* gets the whole track as its region.
C5_Witness ==
    /\ waveSurfer /\ LastOpIs("onWaveSurferReady")
    /\ duration = LongTrack
    /\ cutStart = 0 /\ cutEnd = duration
    /\ regions = <<Region(0, duration)>>

\* C6: cancel in a ready session sets cutStart/cutEnd to the original bounds,
\* isPlaying and wasRegionChanged to false, stops the engine and recreates
\* its single region (clearRegions, then addRegion) at the original bounds.
C6_CancelRestores ==
    [][(waveSurfer /\ lastOp'[1] = "handleClickCancel") =>
          /\ cutStart' = originalCutStart /\ cutEnd' = originalCutEnd
          /\ ~isPlaying' /\ ~wasRegionChanged'
          /\ ~playing' /\ currentTime' = 0
          /\ regions' = <<Region(originalCutStart, originalCutEnd)>>
          /\ calls' = << <<"clearRegions">>,
                         <<"addRegion", originalCutStart, originalCutEnd>>,
                         <<"stop">> >>
          /\ UNCHANGED <<originalCutStart, originalCutEnd, waveSurfer>>
      ]_vars

\* C6 witness: cancel has run in a ready session and left the engine stopped
\* with its region at the original bounds.
C6_Witness ==
    /\ waveSurfer /\ LastOpIs("handleClickCancel")
    /\ ~playing /\ ~isPlaying
    /\ regions = <<Region(originalCutStart, originalCutEnd)>>

\* C7: a cancel that directly follows a cancel in a ready session changes
\* neither the session state nor the engine (its region, transport, playhead).
C7_CancelIdempotent ==
    [][(waveSurfer /\ LastOpIs("handleClickCancel")
            /\ lastOp'[1] = "handleClickCancel") =>
          UNCHANGED <<session, engineState>>
      ]_vars

\* C7 witness: cancel has run twice in a row in a ready session.
C7_Witness ==
    /\ waveSurfer
    /\ LastOpIs("handleClickCancel") /\ lastOp[2] = TRUE

\* C8: while the handle is absent, togglePlay, skip, jump and cancel make no
\* engine call and leave the session fields and the engine unchanged.
C8_NoOpBeforeReady ==
    [][(~waveSurfer /\ lastOp'[1] \in Guarded) =>
          /\ calls' = << >>
          /\ UNCHANGED <<session, engineState>>
      ]_vars

\* C8 witness: an intent has been handled while the engine was still loading.
C8_Witness ==
    /\ ~waveSurfer /\ lifecycle = "mounted" /\ engine = "loading"
    /\ lastOp[1] \in Guarded

\* C9 as stated: once the component is unmounted, no engine that was created
\* remains undestroyed.
C9_EngineReleased ==
    lifecycle = "unmounted" => engine \in {"none", "destroyed"}

\* C10: update-end in a ready session leaves cutStart = newStart and
\* cutEnd = newEnd (an edge is written iff it differs) and starts playback
\* from the anchor: newStart if the start moved, else newEnd if the end
\* moved, else 0.
C10_UpdateEndCommits ==
    [][(waveSurfer /\ lastOp'[1] = "onCropRegionUpdateEnd") =>
          LET newStart == lastOp'[2]
              newEnd == lastOp'[3]
              anchor == IF newStart # cutStart THEN newStart
                        ELSE IF newEnd # cutEnd THEN newEnd ELSE 0
          IN  /\ cutStart' = newStart /\ cutEnd' = newEnd
              /\ calls' = << <<"play", anchor>> >>
              /\ playing' /\ currentTime' = anchor
      ]_vars

\* C10 witness: an update-end has moved both edges and playback was started
\* from the new start, not from the new end.
C10_Witness ==
    /\ waveSurfer /\ LastOpIs("onCropRegionUpdateEnd")
    /\ cutStart # originalCutStart /\ cutEnd # originalCutEnd
    /\ calls = << <<"play", cutStart>> >>
    /\ zeroAnchor = FALSE

\* C11: every update-end in a ready session leaves isPlaying true and
\* wasRegionChanged equal to (anchor # 0), whatever they were before.
C11_UpdateEndFlags ==
    [][(waveSurfer /\ lastOp'[1] = "onCropRegionUpdateEnd") =>
          LET newStart == lastOp'[2]
              newEnd == lastOp'[3]
              anchor == IF newStart # cutStart THEN newStart
                        ELSE IF newEnd # cutEnd THEN newEnd ELSE 0
          IN  /\ isPlaying'
              /\ wasRegionChanged' = (anchor # 0)
      ]_vars

\* C11 witness: the 60 s track, whose region was [20 s, 40 s] at ready, after
\* the update-end (20 s, 25 s): cutEnd = 25 s, played from 25 s, both flags
\* true.
C11_Witness ==
    /\ waveSurfer /\ duration = 240
    /\ originalCutStart = 80 /\ originalCutEnd = 160
    /\ lastOp = <<"onCropRegionUpdateEnd", 80, 100>>
    /\ cutStart = 80 /\ cutEnd = 100
    /\ calls = << <<"play", 100>> >>
    /\ isPlaying /\ wasRegionChanged

\* C12: cut changes no session field and nothing of the engine, in any
\* state, and raises the "not implemented" notice.
C12_CutChangesNothing ==
    [][lastOp'[1] = "handleClickCut" =>
          /\ UNCHANGED <<session, engineState>>
          /\ calls' = << <<"alert", "Not yet implemented :(">> >>
      ]_vars

\* C12 witness: cut has been handled while the engine was playing.
C12_Witness ==
    /\ LastOpIs("handleClickCut")
    /\ waveSurfer /\ isPlaying /\ playing

C14_JumpToEnd ==
    [][(waveSurfer /\ lastOp' = <<"handleClickJump", TRUE>>) =>
          /\ calls' = << <<"skip", duration - currentTime - 20>>, <<"pause">>,
                         <<"skipForward">> >>
          /\ ~isPlaying'
          /\ ~playing'
          /\ currentTime' = duration
      ]_vars

\* C14 witness: jump(true) on the 60 s track with the playhead at 10 s and
\* the session playing: the engine was told to skip 45 s.
C14_Witness ==
    /\ waveSurfer /\ duration = 240
    /\ lastOp = <<"handleClickJump", TRUE>>
    /\ calls[1] = <<"skip", 180>>
    /\ currentTime = 240 /\ ~playing /\ ~isPlaying

\* C15 as stated: in every ready state isPlaying is true exactly when the
\* engine's transport is running.
C15_IsPlayingIsTransport ==
    (waveSurfer /\ engine = "ready") => (isPlaying <=> playing)

\* C16: jump(false) in a ready session stops the engine and then calls play
\* only if isPlaying was true; it does not change isPlaying, and the playhead
\* is at 0.
C16_JumpToStart ==
    [][(waveSurfer /\ lastOp' = <<"handleClickJump", FALSE>>) =>
          /\ calls' = (IF isPlaying THEN << <<"stop">>, <<"play">> >>
                                    ELSE << <<"stop">> >>)
          /\ playing' = isPlaying
          /\ currentTime' = 0
          /\ isPlaying' = isPlaying
      ]_vars

\* C16 witness: jump(false) in a session that was not playing: the engine
\* was stopped and not started.
C16_Witness ==
    /\ waveSurfer /\ lastOp = <<"handleClickJump", FALSE>>
    /\ calls = << <<"stop">> >>
    /\ ~isPlaying /\ ~playing /\ currentTime = 0

\* C17: togglePlay in a ready session calls pause when isPlaying is true and
\* play when it is false, inverts isPlaying and leaves the bounds, the
\* original bounds and wasRegionChanged unchanged; the second of two
\* consecutive togglePlay calls gives isPlaying the value it had before the
\* first.
C17_TogglePlay ==
    [][(waveSurfer /\ lastOp'[1] = "handleClickTogglePlay") =>
          /\ calls' = (IF isPlaying THEN << <<"pause">> >> ELSE << <<"play">> >>)
          /\ playing' = ~isPlaying
          /\ isPlaying' = ~isPlaying
          /\ UNCHANGED <<cutStart, cutEnd, originalCutStart, originalCutEnd,
                         wasRegionChanged, waveSurfer>>
          /\ LastOpIs("handleClickTogglePlay") => isPlaying' = lastOp[2]
      ]_vars

\* C17 witness: togglePlay has run twice in a row in a ready session that
\* was playing, and the session is playing again.
C17_Witness ==
    /\ waveSurfer /\ LastOpIs("handleClickTogglePlay")
    /\ lastOp[3] = TRUE /\ lastOp[2] = FALSE
    /\ isPlaying /\ wasRegionChanged

\* C18: wasRegionChanged goes from true to false only in a cancel or in an
\* update-end that resolves the anchor 0; togglePlay, skip, jump, cut and
\* region-updated change none of wasRegionChanged, cutStart and cutEnd.
C18_OnlyCancelClearsFlag ==
    [][/\ (wasRegionChanged /\ ~wasRegionChanged') =>
             \/ lastOp'[1] = "handleClickCancel"
             \/ lastOp'[1] = "onCropRegionUpdateEnd" /\ calls' = << <<"play", 0>> >>
       /\ lastOp'[1] \in {"handleClickTogglePlay", "handleClickSkip", "handleClickJump",
                          "handleClickCut", "onCropRegionUpdated"}
             => UNCHANGED <<wasRegionChanged, cutStart, cutEnd>>
      ]_vars

\* C18 witness: a region-updated has moved the engine's region in a session
\* whose flag is true, and the committed bounds are not those of the region.
C18_Witness ==
    /\ waveSurfer /\ wasRegionChanged
    /\ LastOpIs("onCropRegionUpdated") /\ dragging # 0
    /\ regions # <<Region(cutStart, cutEnd)>>

C20_CancelOnlyWhenChanged ==
    [][/\ (lastOp'[1] = "handleClickCut" /\ lastOp'[2]) => wasRegionChanged
       /\ (lastOp'[1] = "handleClickCancel" /\ lastOp'[3]) => wasRegionChanged
       /\ {"handleClickTogglePlay", "handleClickSkip", "handleClickJump"}
             \subseteq Rendered
      ]_vars

\* C20 witness: cancel has been clicked on the rendered button.
C20_Witness ==
    /\ waveSurfer /\ LastOpIs("handleClickCancel") /\ lastOp[3] = TRUE
    /\ ~wasRegionChanged
====
